---- MODULE Spec2Model ----
(***************************************************************************)
(* Model of src/steamlit.py: the PDFFormFiller class and one run of the    *)
(* Streamlit script main().                                                *)
(*                                                                         *)
(* Python strings are sequences of one-character strings, so that str(),   *)
(* lower(), slicing, strip() and zero-padding are computed, not assumed.   *)
(* A Python value is a record [type, s]; a PDF object is a record          *)
(* [type, s] as well ("absent" is a missing dictionary key, for which      *)
(* pdfrw returns None).                                                    *)
(***************************************************************************)
EXTENDS Integers, Sequences, FiniteSets, TLC

VARIABLES
    pc,                 \* position of the script run of main()
    excel_data,         \* attribute self.excel_data
    pdf_template_bytes, \* attribute self.pdf_template_bytes
    pdf_template,       \* attribute self.pdf_template
    index,              \* loop variable of process_all_records (0-based)
    successful_count,   \* local of process_all_records
    failed_count,       \* local of process_all_records
    zip_file,           \* entries written to the archive, in order
    st_out,             \* what the run has shown through st.* so far
    raised              \* exception that escaped process_all_records

vars == <<pc, excel_data, pdf_template_bytes, pdf_template, index,
          successful_count, failed_count, zip_file, st_out, raised>>

(***************************************************************************)
(* Bounds.                                                                 *)
(***************************************************************************)
MaxRows == 2
MaxPages == 2

(***************************************************************************)
(* Strings.                                                                *)
(***************************************************************************)
S_Name == <<"N", "a", "m", "e">>
S_ZipCode == <<"Z", "i", "p", "C", "o", "d", "e">>
S_Agree == <<"A", "g", "r", "e", "e">>
S_Account_ID == <<"A", "c", "c", "o", "u", "n", "t", "_", "I", "D">>
S_Date == <<"D", "a", "t", "e">>
S_nan == <<"n", "a", "n">>
S_Old == <<"O", "l", "d">>

LowerChar(c) ==
    CASE c = "A" -> "a" [] c = "B" -> "b" [] c = "C" -> "c" [] c = "D" -> "d"
      [] c = "I" -> "i" [] c = "N" -> "n" [] c = "O" -> "o" [] c = "T" -> "t"
      [] c = "Y" -> "y" [] c = "Z" -> "z"
      [] OTHER -> c

\* str.lower()
Lower(s) == [i \in 1..Len(s) |-> LowerChar(s[i])]

\* s[1:-1]
Slice1(s) == IF Len(s) < 2 THEN <<>> ELSE SubSeq(s, 2, Len(s) - 1)

DigitChar(d) ==
    CASE d = 0 -> "0" [] d = 1 -> "1" [] d = 2 -> "2" [] d = 3 -> "3"
      [] d = 4 -> "4" [] d = 5 -> "5" [] d = 6 -> "6" [] d = 7 -> "7"
      [] d = 8 -> "8" [] d = 9 -> "9"

RECURSIVE IntToStr(_)
IntToStr(n) ==
    IF n < 10 THEN <<DigitChar(n)>>
    ELSE IntToStr(n \div 10) \o <<DigitChar(n % 10)>>

(***************************************************************************)
(* Python values found in a DataFrame cell, and str() of them.             *)
(***************************************************************************)
PyStrOf(s) == [type |-> "str", s |-> s]
PyNone == [type |-> "None", s |-> <<>>]
PyNaN == [type |-> "NaN", s |-> <<>>]
PyNaT == [type |-> "NaT", s |-> <<>>]
PyInt(n) == [type |-> "int", s |-> IntToStr(n)]
\* a pandas Timestamp; s is its text, as str() gives it
PyTimestamp(s) == [type |-> "Timestamp", s |-> s]

\* str(v)
PyStr(v) ==
    CASE v.type = "str" -> v.s
      [] v.type = "int" -> v.s
      [] v.type = "Timestamp" -> v.s
      [] v.type = "None" -> <<"N", "o", "n", "e">>
      [] v.type = "NaN" -> <<"n", "a", "n">>
      [] v.type = "NaT" -> <<"N", "a", "T">>

\* pd.isna(v) of a scalar
pd_isna(v) == v.type \in {"None", "NaN", "NaT"}

(***************************************************************************)
(* PDF objects (pdfrw).                                                    *)
(***************************************************************************)
Absent == [type |-> "absent", s |-> <<>>]
PdfString(s) == [type |-> "string", s |-> s]
PdfName(s) == [type |-> "name", s |-> s]
PdfStream == [type |-> "stream", s |-> <<>>]
PdfInt(n) == [type |-> "int", s |-> IntToStr(n)]
\* a Python str stored in a PdfDict as it is
RawStr(s) == [type |-> "raw", s |-> s]

\* self.* constants of __init__
ANNOT_FORM_TEXT == PdfName(<<"T", "x">>)
ANNOT_FORM_BUTTON == PdfName(<<"B", "t", "n">>)
WIDGET_SUBTYPE_KEY == PdfName(<<"W", "i", "d", "g", "e", "t">>)
LinkSubtype == PdfName(<<"L", "i", "n", "k">>)
ChoiceType == PdfName(<<"C", "h">>)

\* the annotation's /T entry for a field name: "(" name ")"
FieldT(name) == PdfString(<<"(">> \o name \o <<")">>)

Annotation(T, Subtype, FT, V, AP) ==
    [T |-> T, Subtype |-> Subtype, FT |-> FT, V |-> V, AP |-> AP,
     AS |-> Absent, Ff |-> Absent]

\* truth value of a pdfrw entry (None when the key is missing)
Truthy(o) == o.type # "absent" /\ ~(o.type \in {"string", "raw"} /\ o.s = <<>>)

(***************************************************************************)
(* Templates and spreadsheets the user can upload.                         *)
(***************************************************************************)
NameText == Annotation(FieldT(S_Name), WIDGET_SUBTYPE_KEY, ANNOT_FORM_TEXT,
                       PdfString(S_Old), PdfStream)
ZipText == Annotation(FieldT(S_ZipCode), WIDGET_SUBTYPE_KEY, ANNOT_FORM_TEXT,
                      Absent, Absent)
AgreeButton == Annotation(FieldT(S_Agree), WIDGET_SUBTYPE_KEY,
                          ANNOT_FORM_BUTTON, PdfName(<<"O", "f", "f">>), PdfStream)
NameChoice == Annotation(FieldT(S_Name), WIDGET_SUBTYPE_KEY, ChoiceType,
                         PdfString(S_Old), PdfStream)
DateText == Annotation(FieldT(S_Date), WIDGET_SUBTYPE_KEY, ANNOT_FORM_TEXT,
                       Absent, Absent)
LinkAnnot == Annotation(Absent, LinkSubtype, Absent, Absent, Absent)

\* a page: its /Annots entry is missing (HasAnnots = FALSE) or an array
Page(annots) == [HasAnnots |-> TRUE, Annots |-> annots]
PageNoAnnots == [HasAnnots |-> FALSE, Annots |-> <<>>]

PageLayouts ==
    { PageNoAnnots,
      Page(<<>>),
      Page(<<NameText, ZipText>>),
      Page(<<AgreeButton, DateText>>),
      Page(<<NameChoice, LinkAnnot>>) }

SeqsUpTo(S, n) == UNION { [1..k -> S] : k \in 0..n }

\* a parsed document: its pages and Root.AcroForm
Documents ==
    { [pages |-> ps, AcroForm |-> af] :
        ps \in SeqsUpTo(PageLayouts, MaxPages),
        af \in { [present |-> FALSE, NeedAppearances |-> FALSE],
                 [present |-> TRUE, NeedAppearances |-> FALSE] } }

\* an uploaded PDF file: bytes that parse to a document, or that do not parse
PdfFiles ==
    { [readable |-> TRUE, pdf |-> d] : d \in Documents }
    \cup { [readable |-> FALSE, pdf |-> [pages |-> <<>>,
            AcroForm |-> [present |-> FALSE, NeedAppearances |-> FALSE]]] }

\* The cells pd.read_excel gives: an empty cell is NaN, NaT in a column of dates.
CellValues(col) ==
    CASE col = S_Name ->
            { PyStrOf(<<" ", "B", "o", "b", " ">>), PyStrOf(<<"N", "a", "N">>) }
      [] col = S_ZipCode -> { PyStrOf(<<"1", "2", "3">>), PyNaN }
      [] col = S_Agree -> { PyStrOf(<<"Y", "e", "s">>) }
      [] col = S_Account_ID -> { PyStrOf(<<"A", "1">>), PyNaN }
      [] col = S_Date ->
            { PyTimestamp(<<"2", "0", "2", "4", "-", "0", "1", "-", "0", "1", " ",
                            "0", "0", ":", "0", "0", ":", "0", "0">>),
              PyNaT }

ColumnSets == { {S_Name, S_ZipCode}, {S_Agree, S_Account_ID, S_Date} }

RowsOver(cols) ==
    { r \in [cols -> UNION { CellValues(c) : c \in cols }] :
        \A c \in cols : r[c] \in CellValues(c) }

\* a DataFrame as pd.read_excel returns it: a RangeIndex and one dict per row
DataFrames ==
    UNION { { [columns |-> cols, rows |-> rs] :
                rs \in SeqsUpTo(RowsOver(cols), MaxRows) } : cols \in ColumnSets }

\* an uploaded Excel file
ExcelFiles ==
    { [readable |-> TRUE, frame |-> df] : df \in DataFrames }
    \cup { [readable |-> FALSE, frame |-> [columns |-> {}, rows |-> <<>>]] }

(***************************************************************************)
(* Attributes of the PDFFormFiller instance. __init__ sets none of         *)
(* excel_data, pdf_template_bytes, pdf_template: reading one that was      *)
(* never assigned raises AttributeError.                                   *)
(***************************************************************************)
Unset == [state |-> "unset"]
Set(v) == [state |-> "set", value |-> v]

(***************************************************************************)
(* fill_pdf_form.                                                          *)
(***************************************************************************)
\* lines 71-73: the string written for a cell
field_value(raw) ==
    LET str_value == PyStrOf(PyStr(raw))
    IN  IF pd_isna(str_value) \/ Lower(str_value.s) = S_nan
        THEN <<>>
        ELSE str_value.s

\* lines 75-78: annotation.update(...) by field type
update_by_type(annotation, value) ==
    IF annotation.FT = ANNOT_FORM_TEXT
    THEN [annotation EXCEPT !.V = RawStr(value), !.AP = RawStr(value)]
    ELSE IF annotation.FT = ANNOT_FORM_BUTTON
    THEN [annotation EXCEPT !.V = PdfName(value), !.AS = PdfName(value)]
    ELSE annotation

\* lines 67-78: the body of the loop over a page's annotations
fill_annotation(annotation, row_data) ==
    IF Truthy(annotation.T) /\ annotation.Subtype = WIDGET_SUBTYPE_KEY
    THEN LET key == Slice1(annotation.T.s)
         IN  IF key \in DOMAIN row_data
             THEN update_by_type(annotation, field_value(row_data[key]))
             ELSE annotation
    ELSE annotation

\* line 65: if page['/Annots'] (a missing key and an empty array are both false)
has_annotations(page) == page.HasAnnots /\ Len(page.Annots) > 0

\* lines 65-78 for one page
fill_page(page, row_data) ==
    IF has_annotations(page)
    THEN [page EXCEPT !.Annots =
            [i \in 1..Len(page.Annots) |-> fill_annotation(page.Annots[i], row_data)]]
    ELSE page

\* The local variable `annotation` after the pages up to p: the place
\* <<page, position>> of the annotation it is bound to, <<0, 0>> while unbound.
Unbound == <<0, 0>>

\* line 79: annotation.update(PdfDict(Ff=1)), at the level of the page loop
set_read_only(template, ref) ==
    [template EXCEPT !.pages[ref[1]].Annots[ref[2]].Ff = PdfInt(1)]

\* lines 64-79: the loop over the pages, from page p on
RECURSIVE fill_pages(_, _, _, _)
fill_pages(template, row_data, p, annotation) ==
    IF p > Len(template.pages)
    THEN [raised |-> "none", template |-> template]
    ELSE LET page == fill_page(template.pages[p], row_data)
             bound == IF has_annotations(page)
                      THEN <<p, Len(page.Annots)>>
                      ELSE annotation
             filled == [template EXCEPT !.pages[p] = page]
         IN  IF bound = Unbound
             THEN [raised |-> "UnboundLocalError", template |-> filled]
             ELSE fill_pages(set_read_only(filled, bound), row_data, p + 1, bound)

\* set_need_appearances with the update skipped when there is no AcroForm
set_need_appearances_guarded(template) ==
    [raised |-> "none",
     template |-> IF template.AcroForm.present
                  THEN [template EXCEPT !.AcroForm.NeedAppearances = TRUE]
                  ELSE template]

\* line 80: template.Root.AcroForm.update(NeedAppearances=true)
set_need_appearances(template) ==
    IF template.AcroForm.present
    THEN [raised |-> "none",
          template |-> [template EXCEPT !.AcroForm.NeedAppearances = TRUE]]
    ELSE [raised |-> "AttributeError", template |-> template]

\* pdfrw.PdfReader(BytesIO(b)) and PdfWriter().write(buffer, doc)
PdfReader(bytes) == bytes.pdf
PdfWriter(doc) == [readable |-> TRUE, pdf |-> doc]

\* line 63: the document fill_pdf_form works on
open_template(self) == PdfReader(self.pdf_template_bytes.value)

\* fill_pdf_form working on the parsed template the instance keeps
\* (template = self.pdf_template) instead of a fresh parse of the bytes
fill_pdf_form_shared(self, row_data) ==
    LET paged == fill_pages(self.pdf_template.value, row_data, 1, Unbound)
        done == IF paged.raised = "none"
                THEN set_need_appearances(paged.template)
                ELSE paged
    IN  [raised |-> done.raised, result |-> done.template,
         self |-> [self EXCEPT !.pdf_template = Set(done.template)]]

\* lines 62-81. The result is the exception raised ("none" when it returns),
\* the returned document, and the instance as the call leaves it.
fill_pdf_form(self, row_data) ==
    LET paged == fill_pages(open_template(self), row_data, 1, Unbound)
        done == IF paged.raised = "none"
                THEN set_need_appearances(paged.template)
                ELSE paged
    IN  [raised |-> done.raised, result |-> done.template, self |-> self]

(***************************************************************************)
(* The script run: main() builds the instance, calls upload_files and, if  *)
(* the button was clicked, process_all_records.                            *)
(***************************************************************************)
Msg(kind) == [kind |-> kind]

Init ==
    /\ pc = "main"
    /\ excel_data = Unset
    /\ pdf_template_bytes = Unset
    /\ pdf_template = Unset
    /\ index = 0
    /\ successful_count = 0
    /\ failed_count = 0
    /\ zip_file = <<>>
    /\ st_out = <<>>
    /\ raised = "none"

\* the annotations of a document, over all its pages
annotations_of(template) ==
    UNION { { template.pages[p].Annots[i] : i \in 1..Len(template.pages[p].Annots) } :
              p \in { q \in 1..Len(template.pages) :
                        has_annotations(template.pages[q]) } }

\* lines 45-60, called from line 41 with the attributes as they are then
print_pdf_fields(excel, template) ==
    LET fields == { Slice1(a.T.s) :
                      a \in { b \in annotations_of(template) :
                                Truthy(b.T) /\ b.Subtype = WIDGET_SUBTYPE_KEY } }
        shown == <<[kind |-> "fields", fields |-> fields]>>
    IN  IF excel.state = "unset"
        THEN [raised |-> "AttributeError", out |-> shown]
        ELSE IF excel.state = "None"
        THEN [raised |-> "none", out |-> shown]
        ELSE [raised |-> "none",
              out |-> shown \o <<[kind |-> "columns",
                                  columns |-> excel.value.columns]>>]

NoUpload == [given |-> FALSE, readable |-> FALSE]
ExcelUploads ==
    {NoUpload} \cup { [given |-> TRUE, readable |-> f.readable, frame |-> f.frame] :
                        f \in ExcelFiles }
PdfUploads ==
    {NoUpload} \cup { [given |-> TRUE, readable |-> f.readable, pdf |-> f.pdf] :
                        f \in PdfFiles }

\* lines 19-43
upload_files ==
    /\ pc = "main"
    /\ \E uploaded_excel \in ExcelUploads, uploaded_pdf \in PdfUploads :
         LET excel == IF uploaded_excel.given /\ uploaded_excel.readable
                      THEN Set([columns |-> uploaded_excel.frame.columns,
                                rows |-> uploaded_excel.frame.rows])
                      ELSE excel_data
             excel_out == IF ~uploaded_excel.given THEN <<>>
                          ELSE IF uploaded_excel.readable
                          THEN <<Msg("excel_uploaded")>>
                          ELSE <<Msg("error_reading_excel")>>
             bytes == [readable |-> uploaded_pdf.readable, pdf |-> uploaded_pdf.pdf]
             printed == print_pdf_fields(excel, PdfReader(bytes))
         IN  /\ excel_data' = excel
             /\ IF ~uploaded_pdf.given
                THEN /\ UNCHANGED <<pdf_template_bytes, pdf_template>>
                     /\ st_out' = st_out \o excel_out
                ELSE /\ pdf_template_bytes' = Set(bytes)
                     /\ IF ~uploaded_pdf.readable
                        THEN /\ UNCHANGED pdf_template
                             /\ st_out' = st_out \o excel_out
                                            \o <<Msg("error_reading_pdf")>>
                        ELSE /\ pdf_template' = Set(PdfReader(bytes))
                             /\ st_out' = st_out \o excel_out
                                  \o <<Msg("pdf_uploaded")>> \o printed.out
                                  \o (IF printed.raised = "none" THEN <<>>
                                      ELSE <<Msg("error_reading_pdf")>>)
    /\ pc' = "uploaded"
    /\ UNCHANGED <<index, successful_count, failed_count, zip_file, raised>>

\* lines 83-94: the guard and the set-up of the loop
process_all_records ==
    /\ pc = "uploaded"
    /\ IF excel_data.state = "unset"
          \/ (excel_data.state # "None" /\ pdf_template.state = "unset")
       THEN /\ pc' = "raised"
            /\ raised' = "AttributeError"
            /\ UNCHANGED st_out
       ELSE IF excel_data.state = "None" \/ pdf_template.state = "None"
       THEN /\ pc' = "returned"
            /\ st_out' = Append(st_out, Msg("please_upload_both"))
            /\ UNCHANGED raised
       ELSE /\ pc' = "loop"
            /\ UNCHANGED <<st_out, raised>>
    /\ index' = 0
    /\ successful_count' = 0
    /\ failed_count' = 0
    /\ zip_file' = <<>>
    /\ UNCHANGED <<excel_data, pdf_template_bytes, pdf_template>>

\* line 98: row.get('Account_ID', index)
identifier(row, i) ==
    IF S_Account_ID \in DOMAIN row THEN row[S_Account_ID] ELSE PyInt(i)

\* line 99: f"filled_form_{identifier}.pdf"
pdf_filename(ident) == <<"filled_form_">> \o PyStr(ident) \o <<".pdf">>

\* line 96: the row that iterrows() yields for an index
iterrows(frame, i) == frame.rows[i + 1]

\* process_record without the try/except: the exception leaves the loop
process_record_uncaught ==
    /\ pc = "loop"
    /\ index < Len(excel_data.value.rows)
    /\ LET row == iterrows(excel_data.value, index)
           name == pdf_filename(identifier(row, index))
           self == [pdf_template_bytes |-> pdf_template_bytes,
                    pdf_template |-> pdf_template]
           filled == fill_pdf_form(self, row)
       IN  IF filled.raised = "none"
           THEN /\ zip_file' = Append(zip_file,
                       [name |-> name, data |-> PdfWriter(filled.result)])
                /\ successful_count' = successful_count + 1
                /\ st_out' = Append(st_out,
                       [kind |-> "processed", record |-> index + 1,
                        of |-> Len(excel_data.value.rows), name |-> name])
                /\ index' = index + 1
                /\ UNCHANGED <<pc, raised>>
           ELSE /\ pc' = "raised"
                /\ raised' = filled.raised
                /\ UNCHANGED <<zip_file, successful_count, st_out, index>>
    /\ UNCHANGED <<excel_data, pdf_template_bytes, pdf_template, failed_count>>

\* lines 96-109: one iteration of the loop
process_record ==
    /\ pc = "loop"
    /\ index < Len(excel_data.value.rows)
    /\ LET row == iterrows(excel_data.value, index)
           name == pdf_filename(identifier(row, index))
           self == [pdf_template_bytes |-> pdf_template_bytes,
                    pdf_template |-> pdf_template]
           filled == fill_pdf_form(self, row)
       IN  /\ pdf_template_bytes' = filled.self.pdf_template_bytes
           /\ pdf_template' = filled.self.pdf_template
           /\ IF filled.raised = "none"
              THEN /\ zip_file' = Append(zip_file,
                          [name |-> name, data |-> PdfWriter(filled.result)])
                   /\ successful_count' = successful_count + 1
                   /\ st_out' = Append(st_out,
                          [kind |-> "processed", record |-> index + 1,
                           of |-> Len(excel_data.value.rows), name |-> name])
                   /\ UNCHANGED failed_count
              ELSE /\ failed_count' = failed_count + 1
                   /\ st_out' = Append(st_out,
                          [kind |-> "error_processing", record |-> index,
                           detail |-> filled.raised])
                   /\ UNCHANGED <<zip_file, successful_count>>
    /\ index' = index + 1
    /\ UNCHANGED <<pc, excel_data, raised>>

\* lines 111-125: the download button and the report
report ==
    /\ pc = "loop"
    /\ index = Len(excel_data.value.rows)
    /\ st_out' = st_out \o
          << [kind |-> "download", data |-> zip_file],
             Msg("complete"),
             [kind |-> "successful", n |-> successful_count],
             [kind |-> "failed", n |-> failed_count] >>
    /\ pc' = "done"
    /\ UNCHANGED <<excel_data, pdf_template_bytes, pdf_template, index,
                   successful_count, failed_count, zip_file, raised>>

Next == upload_files \/ process_all_records \/ process_record \/ report

Spec == Init /\ [][Next]_vars

(***************************************************************************)
(* What the claims talk about.                                             *)
(***************************************************************************)
Rows == excel_data.value.rows

\* the template as uploaded
Template == PdfReader(pdf_template_bytes.value)

\* the per-row messages shown so far, in order
RowMessages ==
    SelectSeq(st_out, LAMBDA m : m.kind \in {"processed", "error_processing"})

\* the archive entry that the k-th message of st_out reports
EntryNo(k) == Cardinality({ j \in 1..k : st_out[j].kind = "processed" })

\* the documents produced so far: row, 1-based ordinal, output name, document
Produced ==
    { [ordinal |-> st_out[k].record,
       row |-> Rows[st_out[k].record],
       name |-> zip_file[EntryNo(k)].name,
       doc |-> PdfReader(zip_file[EntryNo(k)].data)] :
        k \in { j \in 1..Len(st_out) : st_out[j].kind = "processed" } }

\* the places <<page, position>> of the annotations of a document
Places(doc) ==
    UNION { { <<p, i>> : i \in 1..Len(doc.pages[p].Annots) } :
              p \in 1..Len(doc.pages) }

At(doc, place) == doc.pages[place[1]].Annots[place[2]]

HasFieldName(a) == Truthy(a.T)
IsWidgetField(a) == HasFieldName(a) /\ a.Subtype = WIDGET_SUBTYPE_KEY
FieldName(a) == Slice1(a.T.s)

InBatch == pc \in {"loop", "done"}

(***************************************************************************)
(* C1                                                                      *)
(***************************************************************************)
\* the instance as upload_files left it
Pristine ==
    [pdf_template_bytes |-> pdf_template_bytes,
     pdf_template |-> Set(PdfReader(pdf_template_bytes.value))]

\* C1: per-row isolation. While the batch runs, the template every row starts
\* from is the uploaded one (nothing a row wrote stays behind in the
\* instance); the document produced for a row is the one that filling that
\* row alone, first, from the uploaded template produces; and two rows with
\* equal data get equal documents wherever they stand in the batch.
C1_PerRowIsolation ==
    InBatch =>
        /\ pdf_template = Pristine.pdf_template
        /\ open_template([pdf_template_bytes |-> pdf_template_bytes,
                          pdf_template |-> pdf_template]) = Template
        /\ \A e \in Produced :
             e.doc = fill_pdf_form(Pristine, e.row).result
        /\ \A e1, e2 \in Produced :
             e1.row = e2.row => e1.doc = e2.doc

\* two different rows were filled one after the other, the first one wrote
\* a value into a text field, and the two documents differ
C1_Witness ==
    /\ pc = "done"
    /\ \E e1, e2 \in Produced :
         /\ e1.ordinal < e2.ordinal
         /\ e1.row # e2.row
         /\ e1.doc # e2.doc
         /\ \E place \in Places(e1.doc) :
              /\ At(e1.doc, place).V # At(Template, place).V
              /\ At(e1.doc, place).V # At(e2.doc, place).V
              /\ At(e2.doc, place).V # At(Template, place).V

(***************************************************************************)
(* C2                                                                      *)
(***************************************************************************)
C2_Counts ==
    InBatch =>
        /\ raised = "none"
        /\ index <= Len(Rows)
        /\ successful_count + failed_count = index
        /\ Len(zip_file) = successful_count
        /\ Len(RowMessages) = index
        /\ \A k \in 1..Len(RowMessages) :
             \/ RowMessages[k].kind = "processed" /\ RowMessages[k].record = k
             \/ RowMessages[k].kind = "error_processing"
                  /\ RowMessages[k].record = k - 1
        /\ Cardinality({ k \in 1..Len(RowMessages) :
                           RowMessages[k].kind = "processed" }) = successful_count
        /\ pc = "done" =>
             /\ index = Len(Rows)
             /\ successful_count + failed_count = Len(Rows)
             /\ st_out[Len(st_out) - 1] =
                  [kind |-> "successful", n |-> successful_count]
             /\ st_out[Len(st_out)] = [kind |-> "failed", n |-> failed_count]

\* C2: batch forward progress. Once the loop of process_all_records has
\* started, no step leaves it except to the report (a failing row does not
\* abort the batch); each step attempts the next row and increments exactly
\* one of successful_count and failed_count; every row is attempted once, in
\* row order; at the end the two counts add up to the number of rows and
\* both are reported.
C2_BatchForwardProgress ==
    /\ []C2_Counts
    /\ [][pc = "loop" =>
            /\ pc' \in {"loop", "done"}
            /\ pc' = "loop" =>
                 /\ index' = index + 1
                 /\ \/ successful_count' = successful_count + 1
                         /\ failed_count' = failed_count
                    \/ successful_count' = successful_count
                         /\ failed_count' = failed_count + 1
            /\ pc' = "done" => index = Len(Rows)]_vars

\* a batch of two rows ended after a row failed
C2_Witness ==
    /\ pc = "done"
    /\ Len(Rows) >= 2
    /\ failed_count >= 2
    /\ st_out[Len(st_out)] = [kind |-> "failed", n |-> failed_count]

(***************************************************************************)
(* C7                                                                      *)
(***************************************************************************)
\* C7: with a template that has no AcroForm, every row fails: the batch runs
\* to its end with no success, as many failures as rows, and an empty archive.
C7_FormlessTemplate ==
    (InBatch /\ ~Template.AcroForm.present) =>
        /\ successful_count = 0
        /\ failed_count = index
        /\ zip_file = <<>>
        /\ \A k \in 1..Len(RowMessages) :
             RowMessages[k].kind = "error_processing"
        /\ pc = "done" =>
             /\ failed_count = Len(Rows)
             /\ st_out[Len(st_out) - 3] = [kind |-> "download", data |-> <<>>]

\* a batch of two rows ended on a formless template whose first page has
\* fields the rows name
C7_Witness ==
    /\ pc = "done"
    /\ ~Template.AcroForm.present
    /\ Len(Rows) >= 2
    /\ failed_count = Len(Rows)
    /\ Len(Template.pages) >= 1
    /\ \E place \in Places(Template) :
         /\ place[1] = 1
         /\ IsWidgetField(At(Template, place))
         /\ FieldName(At(Template, place)) \in DOMAIN Rows[1]

(***************************************************************************)
(* The value normalization the claims C5, C6 and C8 state.                 *)
(***************************************************************************)
IsSpace(c) == c = " "

RECURSIVE LStrip(_)
LStrip(s) == IF s # <<>> /\ IsSpace(Head(s)) THEN LStrip(Tail(s)) ELSE s

RECURSIVE RStrip(_)
RStrip(s) ==
    IF s # <<>> /\ IsSpace(s[Len(s)]) THEN RStrip(SubSeq(s, 1, Len(s) - 1)) ELSE s

Strip(s) == LStrip(RStrip(s))

RECURSIVE LeftPad(_, _, _)
LeftPad(s, width, c) == IF Len(s) >= width THEN s ELSE LeftPad(<<c>> \o s, width, c)

IsPostalCode(name) ==
    Lower(name) \in { <<"z", "i", "p", "c", "o", "d", "e">>,
                      <<"p", "o", "s", "t", "a", "l", "c", "o", "d", "e">> }

\* absent, null, or the token "nan" in any letter case
IsEmptyRaw(raw) == pd_isna(raw) \/ (raw.type = "str" /\ Lower(raw.s) = S_nan)

Normalized(name, raw) ==
    IF IsEmptyRaw(raw) THEN <<>>
    ELSE IF IsPostalCode(name) THEN LeftPad(Strip(PyStr(raw)), 5, "0")
    ELSE Strip(PyStr(raw))

\* the fields of a produced document that the row names and fill dispatches on
Written(e) ==
    { place \in Places(Template) :
        /\ IsWidgetField(At(Template, place))
        /\ FieldName(At(Template, place)) \in DOMAIN e.row
        /\ At(Template, place).FT \in {ANNOT_FORM_TEXT, ANNOT_FORM_BUTTON} }

RawFor(e, place) == e.row[FieldName(At(Template, place))]

(***************************************************************************)
(* C3                                                                      *)
(***************************************************************************)
NameFor(text) == <<"filled_form_">> \o text \o <<".pdf">>

\* C3: the output name of every row is the value of Account_ID when the row
\* has that column and the value is non-empty, and the row's 1-based ordinal
\* otherwise.
C3_OutputNaming ==
    \A e \in Produced :
        e.name = IF S_Account_ID \in DOMAIN e.row
                    /\ ~pd_isna(e.row[S_Account_ID])
                    /\ PyStr(e.row[S_Account_ID]) # <<>>
                 THEN NameFor(PyStr(e.row[S_Account_ID]))
                 ELSE NameFor(IntToStr(e.ordinal))

(***************************************************************************)
(* C4                                                                      *)
(***************************************************************************)
\* C4: in every produced document, an annotation whose field name is not a
\* key of the row equals the template's annotation, entry by entry.
C4_SelectiveFill ==
    \A e \in Produced :
        \A place \in Places(Template) :
            (HasFieldName(At(Template, place))
               /\ FieldName(At(Template, place)) \notin DOMAIN e.row)
            => At(e.doc, place) = At(Template, place)

(***************************************************************************)
(* C5                                                                      *)
(***************************************************************************)
\* C5: in every produced document, a field whose raw value in the row is
\* null (None, NaN, NaT) or the token "nan" in any letter case holds the
\* empty string.
C5_EmptyValue ==
    \A e \in Produced :
        \A place \in Written(e) :
            IsEmptyRaw(RawFor(e, place)) => At(e.doc, place).V.s = <<>>

(***************************************************************************)
(* C6                                                                      *)
(***************************************************************************)
\* C6: in every produced document, a field whose raw value is non-empty holds
\* the value converted to string and trimmed, left-padded with "0" to width
\* 5 when the field is a postal code.
C6_NonEmptyValue ==
    \A e \in Produced :
        \A place \in Written(e) :
            ~IsEmptyRaw(RawFor(e, place)) =>
                At(e.doc, place).V.s =
                    Normalized(FieldName(At(Template, place)), RawFor(e, place))

(***************************************************************************)
(* C8                                                                      *)
(***************************************************************************)
\* C8: in every produced document, a text field the row names has the
\* normalized string in its value slot and its appearance slot cleared; a
\* button field the row names has the name token of the normalized string in
\* its value slot and in its appearance-state slot.
C8_FieldTypeDispatch ==
    \A e \in Produced :
        \A place \in Written(e) :
            LET before == At(Template, place)
                after == At(e.doc, place)
                value == Normalized(FieldName(before), RawFor(e, place))
            IN  /\ before.FT = ANNOT_FORM_TEXT =>
                     /\ after.V.s = value
                     /\ after.V.type \in {"string", "raw"}
                     /\ ~Truthy(after.AP)
                /\ before.FT = ANNOT_FORM_BUTTON =>
                     /\ after.V = PdfName(value)
                     /\ after.AS = PdfName(value)

\* C8, with the string fill_pdf_form itself computes for the cell in place of
\* the normalized string: what is left of the claim is the appearance slot.
C8_DispatchOnFieldValue ==
    \A e \in Produced :
        \A place \in Written(e) :
            LET before == At(Template, place)
                after == At(e.doc, place)
                value == field_value(RawFor(e, place))
            IN  /\ before.FT = ANNOT_FORM_TEXT =>
                     /\ after.V.s = value
                     /\ ~Truthy(after.AP)
                /\ before.FT = ANNOT_FORM_BUTTON =>
                     /\ after.V = PdfName(value)
                     /\ after.AS = PdfName(value)

(***************************************************************************)
(* C9                                                                      *)
(***************************************************************************)
\* the template cut down to its page p
OnlyPage(p) == [Template EXCEPT !.pages = <<Template.pages[p]>>]

\* C9: with a template that has an AcroForm no row fails, whatever its pages
\* hold; a page without annotations is skipped, and what a produced document
\* holds on one page is what filling that page alone gives (no page changes
\* an annotation of another page).
C9_FillNeverFailsOnPages ==
    (InBatch /\ Template.AcroForm.present) =>
        /\ failed_count = 0
        /\ \A e \in Produced :
             \A p \in 1..Len(Template.pages) :
                 IF has_annotations(Template.pages[p])
                 THEN e.doc.pages[p] =
                        fill_pages(OnlyPage(p), e.row, 1, Unbound).template.pages[1]
                 ELSE e.doc.pages[p] = Template.pages[p]

(***************************************************************************)
(* C10                                                                     *)
(***************************************************************************)
\* C10: when process_all_records is called and the Excel data or the PDF
\* template was not loaded, it shows 'Please upload both Excel file and PDF
\* template.', processes no row, produces no archive and raises nothing.
C10_UploadGuard ==
    (pc \notin {"main", "uploaded"}
       /\ (excel_data.state # "set" \/ pdf_template.state # "set"))
    => /\ pc = "returned"
       /\ raised = "none"
       /\ st_out # <<>>
       /\ st_out[Len(st_out)] = Msg("please_upload_both")
       /\ zip_file = <<>>
       /\ index = 0

====
